---- MODULE Spec2Model ----
(***************************************************************************)
(* The polling agent of ceilometer/agent/base.py: AgentManager             *)
(* (construction, start, discovery), PollingTask (add, poll_and_publish)   *)
(* and Resources (setup, get), as a state machine.                         *)
(*                                                                         *)
(* Collaborators that live outside base.py (the partition coordinator,     *)
(* utils.hash_of_set, the pipeline's support_meter, the publish context,   *)
(* the plugins) are modelled by their contract; their outcomes are drawn   *)
(* nondeterministically where the contract leaves them open.               *)
(***************************************************************************)
EXTENDS Integers, Sequences, FiniteSets, TLC

(***************************************************************************)
(* Values                                                                  *)
(***************************************************************************)

\* Python's None, where a string may stand instead.
None == "<None>"

\* Python truthiness of an optional string: None and '' are false.
Truthy(x) == x # None /\ x # ""

Range(s) == {s[k] : k \in DOMAIN s}

InSeq(x, s) == \E k \in DOMAIN s : s[k] = x

\* The number of positions of s that hold x.
Count(x, s) == Cardinality({k \in DOMAIN s : s[k] = x})

\* A dict d with d[k] = v set.
Put(d, k, v) == [x \in DOMAIN d \cup {k} |-> IF x = k THEN v ELSE d[x]]

EmptyDict == [x \in {} |-> 0]

\* A discovery URL, as urlparse splits it: scheme://netloc/path.
Url(scheme, netloc, path) == [scheme |-> scheme, netloc |-> netloc, path |-> path]

\* The empty URL string (and None): false in a Python condition.
NoUrl == Url("", "", "")

U_inst == Url("inst", "", "")          \* 'inst://'
U_inst_path == Url("", "", "inst")     \* 'inst'
U_ep == Url("ep", "", "compute")       \* 'ep:compute'
U_nova == Url("nova", "", "")          \* 'nova://', no such discovery plugin

(***************************************************************************)
(* Bounds of the model                                                     *)
(***************************************************************************)

\* The largest value of shuffle_time_before_polling_task a deployment sets.
MaxShuffle == 1

\* The resources of the fleet, in the order the hash ring and
\* hash_of_set enumerate them.
ResourceOrder == <<"r1", "r2", "r3">>

Resources == Range(ResourceOrder)

\* This agent and its peer in the coordination groups.
MyId == "a1"

PeerId == "a2"

Agents == {MyId, PeerId}

\* What one invocation of a discovery plugin may do: raise, or return a list.
Raise == <<"<raise>">>

DiscoverOutcomes == {Raise, <<>>, <<"r1", "r3">>}

(***************************************************************************)
(* The plugins the extension manager can load, and the deployments         *)
(***************************************************************************)

Pollster(name, default_discovery) ==
    [name |-> name, default_discovery |-> default_discovery]

Discoverer(name, group_id) == [name |-> name, group_id |-> group_id]

\* A pipeline: one (source, sink) pair of the pipeline definition. meters is
\* the set of pollster names support_meter accepts.
Pipeline(source, sink, interval, resources, discovery, meters) ==
    [source |-> source, sink |-> sink, interval |-> interval,
     resources |-> resources, discovery |-> discovery, meters |-> meters]

\* What stevedore loads from namespace 'ceilometer.poll.<ns>'.
PollExtensions(ns) ==
    IF ns = "compute"
    THEN <<Pollster("cpu", NoUrl), Pollster("disk", U_inst),
           Pollster("x-cpu", U_inst_path)>>
    ELSE <<Pollster("net", U_ep)>>

\* What stevedore loads from namespace 'ceilometer.discover'.
DiscoverExtensions == <<Discoverer("inst", "compute"), Discoverer("ep", None)>>

P_src1 == Pipeline("src1", "sink", 600, <<"r1", "r2">>, <<>>, {"cpu"})

P_dyn == Pipeline("dyn", "sink", 600, <<>>, <<U_inst, U_nova>>, {"cpu", "disk"})

P_one == Pipeline("one", "sink", 600, <<>>, <<U_inst>>, {"disk"})

P_mix == Pipeline("mix", "sink", 600, <<"r1">>, <<U_nova, U_ep, U_ep>>, {"net"})

P_fast1 == Pipeline("fast", "sink1", 60, <<"r2", "r3">>, <<>>, {"cpu", "disk"})

P_fast2 == Pipeline("fast", "sink2", 60, <<"r2", "r3">>, <<>>, {"cpu", "disk"})

P_idle == Pipeline("idle", "sink", 600, <<>>, <<>>, {"cpu", "disk", "net"})

P_s == Pipeline("s", "sink", 600, <<"r1">>, <<>>, {"x-cpu"})

P_sx == Pipeline("s-x", "sink", 600, <<"r2", "r3">>, <<>>, {"cpu"})

P_own == Pipeline("own", "sink", 600, <<"r1">>, <<>>, {"net"})

P_def == Pipeline("def", "sink", 60, <<>>, <<>>, {"net"})

P_none == Pipeline("none", "sink", 60, <<"r1">>, <<>>, {"net"})

P_quick == Pipeline("quick", "sink", 60, <<"r3">>, <<>>, {"cpu"})

P_x == Pipeline("x", "sink", 600, <<>>, <<U_inst, U_inst_path>>, {"cpu"})

Deployment(namespaces, pollster_list, group_prefix, backend_url, shuffle, pipelines) ==
    [namespaces |-> namespaces, pollster_list |-> pollster_list,
     group_prefix |-> group_prefix, backend_url |-> backend_url,
     shuffle |-> shuffle, pipelines |-> pipelines]

\* Each deployment: the constructor's arguments, the configuration options
\* and the pipeline definition setup_pipeline() reads.
Deployments ==
    { Deployment(<<"compute">>, <<>>, None, None, 0, <<P_src1>>),
      Deployment(<<"compute">>, <<>>, None, "kazoo://", 0, <<P_src1, P_one>>),
      Deployment(<<"compute", "central">>, <<>>, "az1", None, MaxShuffle,
                 <<P_mix>>),
      Deployment(<<"compute">>, <<"cpu">>, None, None, MaxShuffle,
                 <<P_fast1, P_fast2, P_idle>>),
      Deployment(<<"compute">>, <<>>, None, None, 0, <<P_s, P_sx>>),
      Deployment(<<"compute">>, <<>>, None, None, 0, <<P_dyn, P_none>>),
      Deployment(<<"central">>, <<>>, None, None, 0, <<P_own, P_def>>),
      Deployment(<<"compute">>, <<>>, "az1", "kazoo://", MaxShuffle,
                 <<P_src1, P_quick>>),
      Deployment(<<"compute">>, <<>>, None, "kazoo://", 0, <<P_x>>),
      Deployment(<<"compute">>, <<"*">>, None, "kazoo://", 0, <<P_src1>>),
      Deployment(<<"compute">>, <<"cpu">>, "az1", "kazoo://", 0, <<P_dyn>>) }

(***************************************************************************)
(* State                                                                   *)
(***************************************************************************)

VARIABLES
    conf,               \* the deployment: constructor arguments, options, pipelines
    mgr,                \* "new", "failed" (PollsterListForbidden), "constructed", "started"
    loads,              \* the namespaces _extensions() has loaded so far, in order
    extensions,         \* AgentManager.extensions
    discovery_manager,  \* AgentManager.discovery_manager
    group_prefix,       \* AgentManager.group_prefix
    coord,              \* AgentManager.partition_coordinator
    pipelines,          \* AgentManager.pipeline_manager.pipelines
    polling_tasks,      \* interval -> PollingTask, as setup_polling_tasks() built it
    timers,             \* the timers of the thread group
    start_log,          \* the calls start() made, in order
    run,                \* interval -> the locals of that task's poll_and_publish
    publish,            \* interval -> source -> the publish batch of this cycle
    hist                \* interval -> what this cycle did so far

vars == <<conf, mgr, loads, extensions, discovery_manager, group_prefix, coord,
          pipelines, polling_tasks, timers, start_log, run, publish, hist>>

\* The coordinator before AgentManager.__init__ creates it.
NoCoordinator ==
    [created |-> FALSE, started |-> FALSE, joined |-> {},
     members |-> {MyId}, ring |-> [r \in Resources |-> MyId]]

Init ==
    /\ conf \in Deployments
    /\ mgr = "new"
    /\ loads = <<>>
    /\ extensions = <<>>
    /\ discovery_manager = <<>>
    /\ group_prefix = None
    /\ coord = NoCoordinator
    /\ pipelines = <<>>
    /\ polling_tasks = EmptyDict
    /\ timers = {}
    /\ start_log = <<>>
    /\ run = EmptyDict
    /\ publish = EmptyDict
    /\ hist = EmptyDict

(***************************************************************************)
(* AgentManager.__init__                                                   *)
(***************************************************************************)

\* fnmatch.fnmatch for the patterns the deployments use: '*' and names
\* without wildcard characters.
fnmatch(name, pattern) == pattern = "*" \/ pattern = name

_match(pollster, pollster_list) ==
    \E k \in DOMAIN pollster_list : fnmatch(pollster.name, pollster_list[k])

ForbiddenMutant(pollster_list, backend_url) ==
    pollster_list # <<>> /\ ~Truthy(backend_url)

\* The condition that raises PollsterListForbidden.
Forbidden(pollster_list, backend_url) ==
    pollster_list # <<>> /\ Truthy(backend_url)

RECURSIVE Chain(_)
\* itertools.chain(*lists)
Chain(lists) == IF lists = <<>> THEN <<>> ELSE Head(lists) \o Chain(Tail(lists))

\* The pollster extensions of the namespaces, filtered by pollster_list.
LoadPollsters(namespaces, pollster_list) ==
    Chain([k \in DOMAIN namespaces |->
             IF pollster_list # <<>>
             THEN SelectSeq(PollExtensions(namespaces[k]),
                            LAMBDA p : _match(p, pollster_list))
             ELSE PollExtensions(namespaces[k])])

\* sorted() of the namespace names.
NamespaceOrder == <<"central", "compute">>

Sorted(namespaces) == SelectSeq(NamespaceOrder, LAMBDA n : InSeq(n, namespaces))

RECURSIVE Join(_)
\* '-'.join(names)
Join(names) ==
    IF names = <<>> THEN ""
    ELSE IF Len(names) = 1 THEN names[1]
    ELSE names[1] \o "-" \o Join(Tail(names))

GroupPrefix(namespaces, prefix) ==
    IF Truthy(prefix) THEN Join(Sorted(namespaces)) \o "-" \o prefix
    ELSE Join(Sorted(namespaces))

Construct ==
    /\ mgr = "new"
    /\ IF Forbidden(conf.pollster_list, conf.backend_url)
       THEN /\ mgr' = "failed"
            /\ UNCHANGED <<loads, extensions, discovery_manager, group_prefix, coord>>
       ELSE /\ mgr' = "constructed"
            /\ loads' = conf.namespaces \o <<"discover">>
            /\ extensions' = LoadPollsters(conf.namespaces, conf.pollster_list)
            /\ discovery_manager' = DiscoverExtensions
            /\ coord' = [coord EXCEPT !.created = TRUE]
            /\ group_prefix' = GroupPrefix(conf.namespaces, conf.group_prefix)
    /\ UNCHANGED <<conf, pipelines, polling_tasks, timers, start_log, run,
                   publish, hist>>

(***************************************************************************)
(* The partition coordinator and utils.hash_of_set (outside base.py)       *)
(***************************************************************************)

\* is_active(): the coordinator is started against a configured backend.
is_active(c) == c.started /\ Truthy(conf.backend_url)

\* The member a resource of a group falls to, at the membership snapshot
\* c.members: c.ring is the deterministic partitioning function among all
\* the agents, and a resource of an absent agent falls to a present one.
Owner(c, r) ==
    IF c.ring[r] \in c.members THEN c.ring[r] ELSE CHOOSE m \in c.members : TRUE

\* extract_my_subset(group_id, iterable) as agent `agent` evaluates it:
\* unchanged without a group, else the items that fall to the agent.
extract_my_subset(c, agent, group_id, iterable) ==
    IF ~Truthy(group_id) THEN iterable
    ELSE SelectSeq(iterable, LAMBDA r : Owner(c, r) = agent)

RECURSIVE HashBits(_, _)
HashBits(k, set) ==
    IF k > Len(ResourceOrder) THEN ""
    ELSE (IF ResourceOrder[k] \in set THEN "1" ELSE "0") \o HashBits(k + 1, set)

\* utils.hash_of_set: a string that depends on the set of the items only.
hash_of_set(resources) == HashBits(1, Range(resources))

(***************************************************************************)
(* AgentManager.construct_group_id, _parse_discoverer, _discoverer,        *)
(* discover                                                                *)
(***************************************************************************)

construct_group_id(discovery_group_id) ==
    IF Truthy(discovery_group_id)
    THEN group_prefix \o "-" \o discovery_group_id
    ELSE None

_parse_discoverer(url) ==
    [name |-> IF url.scheme # "" THEN url.scheme ELSE url.path,
     param |-> IF url.scheme # "" THEN url.netloc \o url.path ELSE None]

NoDiscoverer == Discoverer(None, None)

\* The first loaded discovery plugin of that name, or none.
_discoverer(name) ==
    LET found == SelectSeq(discovery_manager, LAMBDA d : d.name = name)
    IN  IF found = <<>> THEN NoDiscoverer ELSE found[1]

IsInstanceMutant(exc, cls) == TRUE

\* isinstance(exc, cls) for the exception classes of the model:
\* PollsterPermanentError is a subclass of Exception.
IsInstance(exc, cls) == exc = cls \/ cls = "Exception"

\* The except clause (of `clauses`, in order) that catches exc, or None:
\* the exception then leaves the try statement.
Handler(exc, clauses) ==
    LET hits == SelectSeq(clauses, LAMBDA c : IsInstance(exc, c))
    IN  IF hits = <<>> THEN None ELSE hits[1]

DiscoverClausesMutant == <<>>

\* The except clauses around discoverer.discover (line 321).
DiscoverClauses == <<"Exception">>

\* A discover() call in progress: the result list, the cache of the cycle,
\* how often each URL's discoverer was invoked, and what each position of
\* the URL list contributed (out: what the discoverer did, if invoked).
DiscoverState(resources, cache, invoked, parts, raised) ==
    [resources |-> resources, cache |-> cache, invoked |-> invoked,
     parts |-> parts, raised |-> raised]

Invoke(invoked, url) ==
    Put(invoked, url, IF url \in DOMAIN invoked THEN invoked[url] + 1 ELSE 1)

rememberMutant(discovery_cache, url, partitioned) == discovery_cache

\* discovery_cache[url] = partitioned
remember(discovery_cache, url, partitioned) == Put(discovery_cache, url, partitioned)

\* One turn of discover()'s loop (lines 306-324), for `url`; out is what
\* the discoverer does if this turn invokes it.
DiscoverUrl(agent, url, out, st) ==
    IF url \in DOMAIN st.cache
    THEN [st EXCEPT !.resources = @ \o st.cache[url],
                    !.parts = Append(@, [url |-> url, how |-> "cached",
                                         out |-> <<>>, items |-> st.cache[url],
                                         group |-> None])]
    ELSE LET discoverer == _discoverer(_parse_discoverer(url).name)
         IN  IF discoverer # NoDiscoverer
             THEN IF out = Raise
                  THEN IF Handler("Exception", DiscoverClauses) # None
                       THEN [st EXCEPT !.invoked = Invoke(@, url),
                                       !.parts = Append(@, [url |-> url, how |-> "raised",
                                                            out |-> out, items |-> <<>>,
                                                            group |-> None])]
                       ELSE [st EXCEPT !.invoked = Invoke(@, url),
                                       !.raised = TRUE]
                  ELSE LET group == construct_group_id(discoverer.group_id)
                           partitioned == extract_my_subset(coord, agent, group, out)
                       IN  [st EXCEPT !.resources = @ \o partitioned,
                                      !.cache = remember(@, url, partitioned),
                                      !.invoked = Invoke(@, url),
                                      !.parts = Append(@, [url |-> url, how |-> "discovered",
                                                           out |-> out,
                                                           items |-> partitioned,
                                                           group |-> group])]
             ELSE [st EXCEPT !.parts = Append(@, [url |-> url, how |-> "unknown",
                                                  out |-> <<>>, items |-> <<>>,
                                                  group |-> None])]

(***************************************************************************)
(* Resources                                                               *)
(***************************************************************************)

\* Resources.__init__
NewResources == [_resources |-> <<>>, _discovery |-> <<>>, blacklist |-> <<>>]

\* Resources.setup
setup(rs, pipeline) ==
    [rs EXCEPT !._resources = pipeline.resources, !._discovery = pipeline.discovery]

\* Resources.key
key(source_name, pollster) == source_name \o "-" \o pollster.name

static_resourcesMutant(agent, rs) == rs._resources

static_resources_groupMutant(rs) ==
    construct_group_id(hash_of_set(<<Head(rs._resources)>>))

\* static_resources_group of Resources.get (lines 79-80).
static_resources_group(rs) == construct_group_id(hash_of_set(rs._resources))

\* The static part of Resources.get.
static_resources(agent, rs) ==
    IF rs._resources # <<>>
    THEN extract_my_subset(coord, agent, static_resources_group(rs), rs._resources)
    ELSE <<>>

concatMutant(static, source_discovery) ==
    static \o SelectSeq(source_discovery, LAMBDA x : ~InSeq(x, static))

\* static_resources + source_discovery
concat(static, source_discovery) == static \o source_discovery

\* Resources.get, from line 77 on: source_discovery is what discover()
\* returned for self._discovery (lines 74-76), [] without discovery URLs.
get(agent, rs, source_discovery) ==
    concat(static_resources(agent, rs), source_discovery)

(***************************************************************************)
(* PollingTask.__init__ and PollingTask.add                                *)
(***************************************************************************)

\* PollingTask.__init__. created lists the PublishContext and Resources
\* objects the task constructed, in order.
NewPollingTask ==
    [pollster_matches |-> EmptyDict, publishers |-> EmptyDict,
     resources |-> EmptyDict, created |-> <<>>]

SetAddMutant(set, x) == Append(set, x)

\* set.add on a set kept as the list of its elements.
SetAdd(set, x) == IF InSeq(x, set) THEN set ELSE Append(set, x)

GetDefaultMutant(d, k, default) == default

\* d[k] of a defaultdict: the stored value, or a fresh default.
GetDefault(d, k, default) == IF k \in DOMAIN d THEN d[k] ELSE default

\* PollingTask.add(pollster, pipeline)
add(task, pollster, pipeline) ==
    LET source_name == pipeline.source
        new_context == source_name \notin DOMAIN task.publishers
        publish_context == GetDefault(task.publishers, source_name, {})
        k == key(source_name, pollster)
        new_resources == k \notin DOMAIN task.resources
    IN  [publishers |->
             Put(task.publishers, source_name, publish_context \cup {pipeline.sink}),
         pollster_matches |->
             Put(task.pollster_matches, source_name,
                 SetAdd(GetDefault(task.pollster_matches, source_name, <<>>),
                        pollster)),
         resources |->
             Put(task.resources, k,
                 setup(GetDefault(task.resources, k, NewResources), pipeline)),
         created |->
             task.created
             \o (IF new_context THEN <<[class |-> "PublishContext", of |-> source_name]>>
                 ELSE <<>>)
             \o (IF new_resources THEN <<[class |-> "Resources", of |-> k]>>
                 ELSE <<>>)]

(***************************************************************************)
(* AgentManager.setup_polling_tasks, join_partitioning_groups, start       *)
(***************************************************************************)

\* pipeline.support_meter(name)
support_meter(pipeline, name) == name \in pipeline.meters

RECURSIVE SetupLoop(_, _, _, _)
\* The nested loops of setup_polling_tasks, at turn n of
\* Len(pipes) * Len(exts), the pollsters being the inner loop.
SetupLoop(pipes, exts, n, tasks) ==
    IF n > Len(pipes) * Len(exts) THEN tasks
    ELSE LET pipeline == pipes[((n - 1) \div Len(exts)) + 1]
             pollster == exts[((n - 1) % Len(exts)) + 1]
             interval == pipeline.interval
         IN  IF support_meter(pipeline, pollster.name)
             THEN SetupLoop(pipes, exts, n + 1,
                      Put(tasks, interval,
                          add(GetDefault(tasks, interval, NewPollingTask),
                              pollster, pipeline)))
             ELSE SetupLoop(pipes, exts, n + 1, tasks)

setup_polling_tasks(pipes, exts) == SetupLoop(pipes, exts, 1, EmptyDict)

partitioning_groupsMutant(pipes, discoverers) ==
    {construct_group_id(discoverers[k].group_id) : k \in DOMAIN discoverers}

\* The groups join_partitioning_groups joins.
partitioning_groups(pipes, discoverers) ==
    {construct_group_id(discoverers[k].group_id) : k \in DOMAIN discoverers}
    \cup {construct_group_id(hash_of_set(pipes[k].resources)) :
              k \in {j \in DOMAIN pipes : pipes[j].resources # <<>>}}

delay_timeMutant(interval, delay_start, delay_polling_time) ==
    interval + delay_polling_time

\* The initial delay of the timer of one interval.
delay_time(interval, delay_start, delay_polling_time) ==
    IF delay_start THEN interval + delay_polling_time ELSE delay_polling_time

\* No pollster: the inner loop is between two turns.
NoPollster == Pollster(None, NoUrl)

\* The turn under way has not resolved its resources yet.
NoPoll == [calls |-> <<>>]

IdleMutant ==
    [pc |-> "idle", cache |-> {"net"},
     discovery_cache |-> [u \in {U_ep} |-> <<"r2">>],
     sources |-> {}, source_name |-> None, pollsters |-> {},
     pollster |-> NoPollster, calls |-> <<>>, invoked |-> EmptyDict,
     poll |-> NoPoll]

\* The locals of a poll_and_publish that is not running. pollster is the
\* pollster of the turn of the inner loop under way, calls the discover()
\* calls of that turn, as far as they have got, invoked how often the
\* cycle invoked the discoverer of each URL, and poll the resources the
\* turn resolved, once it has.
Idle ==
    [pc |-> "idle", cache |-> {}, discovery_cache |-> EmptyDict,
     sources |-> {}, source_name |-> None, pollsters |-> {},
     pollster |-> NoPollster, calls |-> <<>>, invoked |-> EmptyDict,
     poll |-> NoPoll]

NoHistory == [invoked |-> EmptyDict, polls |-> {}]

\* AgentManager.start(); the membership snapshot and the partitioning
\* function of the coordinator are whatever the backend holds.
Start ==
    /\ mgr = "constructed"
    /\ \E delay_polling_time \in 0 .. conf.shuffle,
          members \in {{MyId}, Agents},
          ring \in [Resources -> Agents] :
          LET pipes == conf.pipelines
              started == [coord EXCEPT !.started = TRUE]
              delay_start == is_active(started)
              tasks == setup_polling_tasks(pipes, extensions)
          IN  /\ Truthy(conf.backend_url) \/ (members = {MyId} /\ ring = coord.ring)
              /\ pipelines' = pipes
              /\ coord' = [started EXCEPT
                               !.joined = partitioning_groups(pipes, discovery_manager),
                               !.members = members,
                               !.ring = ring]
              /\ polling_tasks' = tasks
              /\ timers' = {[interval |-> i, callback |-> "interval_task",
                             initial_delay |-> delay_time(i, delay_start,
                                                          delay_polling_time)] :
                               i \in DOMAIN tasks}
                            \* cfg.CONF.coordination.heartbeat: 1 second
                            \cup {[interval |-> 1, callback |-> "heartbeat",
                                   initial_delay |-> 0]}
              /\ start_log' = <<"setup_pipeline", "partition_coordinator.start",
                                "join_partitioning_groups", "is_active", "randint",
                                "setup_polling_tasks">>
                               \o [n \in 1 .. Cardinality(DOMAIN tasks) + 1 |->
                                      "add_timer"]
              /\ run' = [i \in DOMAIN tasks |-> Idle]
              /\ publish' = [i \in DOMAIN tasks |-> EmptyDict]
              /\ hist' = [i \in DOMAIN tasks |-> NoHistory]
    /\ mgr' = "started"
    /\ UNCHANGED <<conf, loads, extensions, discovery_manager, group_prefix>>

(***************************************************************************)
(* PollingTask.poll_and_publish, a step for each stretch between two calls *)
(* that wait for the network and let the other timers run                  *)
(***************************************************************************)

PollClausesMutant == <<"PollsterPermanentError">>

\* The except clauses around get_samples and publisher (lines 160, 166).
PollClauses == <<"PollsterPermanentError", "Exception">>

candidatesMutant(source_resources, pollster_resources) ==
    IF pollster_resources # <<>> THEN pollster_resources ELSE source_resources

\* candidate_res = source_resources or pollster_resources
candidates(source_resources, pollster_resources) ==
    IF source_resources # <<>> THEN source_resources ELSE pollster_resources

excludeMutant(candidate_res, black_res) == candidate_res

\* [x for x in candidate_res if x not in black_res]
exclude(candidate_res, black_res) ==
    SelectSeq(candidate_res, LAMBDA x : ~InSeq(x, black_res))

skipMutant(polling_resources) == FALSE

\* if not polling_resources: continue
skip(polling_resources) == polling_resources = <<>>

blacklistedMutant(black_res, fail_res) == black_res

\* self.resources[key].blacklist.append(err.fail_res)
blacklisted(black_res, fail_res) == Append(black_res, fail_res)

\* How many samples get_samples may have yielded when it raises: none, or
\* its first.
YieldedBefore == {0, 1}

\* What pollster.obj.get_samples may do with the resources it is given:
\* yield all its samples, or yield some and then raise
\* PollsterPermanentError for a resource, or something else.
GetSamplesOutcomes(polling_resources) ==
    {[exc |-> None, fail_res |-> None, yielded |-> Len(polling_resources)]}
    \cup {[exc |-> "Exception", fail_res |-> None, yielded |-> n] :
              n \in YieldedBefore}
    \cup {[exc |-> "PollsterPermanentError", fail_res |-> r, yielded |-> n] :
              r \in Range(polling_resources), n \in YieldedBefore}

\* The samples of a pollster: one for each resource polled.
Samples(pollster, polling_resources) ==
    [n \in DOMAIN polling_resources |->
        [name |-> pollster.name, resource |-> polling_resources[n]]]

publishedMutant(pollster, polling_resources, got) ==
    IF got.yielded > 0
    THEN <<[pollster |-> pollster.name,
            samples |-> SubSeq(Samples(pollster, polling_resources), 1, got.yielded)]>>
    ELSE <<>>

\* Lines 154-159: what the try block hands to the publisher. list() takes
\* all of the generator before publisher(samples) is called, so an
\* exception of the generator leaves the try block before the call.
published(pollster, polling_resources, got) ==
    IF got.exc = None
    THEN <<[pollster |-> pollster.name,
            samples |-> Samples(pollster, polling_resources)]>>
    ELSE <<>>

\* A discover() call as the cycle's history keeps it.
Call(discovery, cache, st) ==
    [discovery |-> discovery, cache |-> cache,
     resources |-> st.resources, parts |-> st.parts, raised |-> st.raised]

\* A discover() call that has not visited a URL yet.
NewCall(discovery) ==
    Call(discovery, EmptyDict, DiscoverState(<<>>, EmptyDict, EmptyDict, <<>>, FALSE))

\* The discover() calls of one turn of the inner loop: for the default
\* discovery of the pollster (lines 133-135), then, in Resources.get, for
\* the discovery URLs of the source (lines 74-76).
DiscoverCalls(pollster, rs) ==
    (IF pollster.default_discovery # NoUrl
     THEN <<NewCall(<<pollster.default_discovery>>)>> ELSE <<>>)
    \o (IF rs._discovery # <<>> THEN <<NewCall(rs._discovery)>> ELSE <<>>)

\* The call has visited all its URLs.
Returned(call) == Len(call.parts) = Len(call.discovery)

\* Lines 132-145 of the loop body for `pollster` in the context of
\* `source_name`, once its discover() calls (calls) have returned: the
\* static resources are partitioned now, and the resources to poll chosen.
Resolve(task, source_name, pollster, calls) ==
    LET pollster_resources == IF pollster.default_discovery # NoUrl
                              THEN calls[1].resources ELSE <<>>
        k == key(source_name, pollster)
        rs == task.resources[k]
        source_discovery == IF rs._discovery # <<>>
                            THEN calls[Len(calls)].resources ELSE <<>>
        source_resources == get(MyId, rs, source_discovery)
        candidate_res == candidates(source_resources, pollster_resources)
        black_res == rs.blacklist
    IN  [source_name |-> source_name, pollster |-> pollster.name,
         key |-> k,
         pollster_resources |-> pollster_resources,
         source_resources |-> source_resources,
         candidate_res |-> candidate_res,
         black_res |-> black_res,
         polling_resources |-> exclude(candidate_res, black_res),
         calls |-> calls,
         static_group |-> (IF rs._resources # <<>>
                           THEN static_resources_group(rs) ELSE None),
         result |-> "skip", fail_res |-> None, yielded |-> 0]

\* What the history keeps of a turn that an exception of discover() ended.
Unresolved(source_name, pollster, calls) ==
    [source_name |-> source_name, pollster |-> pollster.name,
     key |-> key(source_name, pollster),
     pollster_resources |-> <<>>, source_resources |-> <<>>,
     candidate_res |-> <<>>, black_res |-> <<>>, polling_resources |-> <<>>,
     calls |-> calls, static_group |-> None,
     result |-> "raised", fail_res |-> None, yielded |-> 0]

\* The publish batch of a source that poll_and_publish has not entered.
NoBatch == [open |-> FALSE, opened |-> 0, flushed |-> 0, adds |-> <<>>]

FlushMutant(batch) == batch

\* PublishContext.__exit__: the batch is flushed.
Flush(batch) == [batch EXCEPT !.open = FALSE, !.flushed = @ + 1]

\* The timer of interval i fires: interval_task(task), and poll_and_publish
\* up to its outer loop.
IntervalTask(i) ==
    /\ mgr = "started"
    /\ \E t \in timers : t.interval = i /\ t.callback = "interval_task"
    /\ run[i].pc = "idle"
    /\ run' = [run EXCEPT ![i] =
                   [Idle EXCEPT !.pc = "sources",
                                !.sources = DOMAIN polling_tasks[i].pollster_matches]]
    /\ publish' = [publish EXCEPT ![i] =
                       [s \in DOMAIN polling_tasks[i].pollster_matches |-> NoBatch]]
    /\ hist' = [hist EXCEPT ![i] = NoHistory]
    /\ UNCHANGED <<conf, mgr, loads, extensions, discovery_manager, group_prefix,
                   coord, pipelines, polling_tasks, timers, start_log>>

\* The outer loop takes its next source and enters its publish context.
EnterSource(i) ==
    /\ i \in DOMAIN run
    /\ run[i].pc = "sources"
    /\ \E source_name \in run[i].sources :
          /\ run' = [run EXCEPT ![i].pc = "pollsters",
                                ![i].sources = @ \ {source_name},
                                ![i].source_name = source_name,
                                ![i].pollsters =
                                    Range(polling_tasks[i].pollster_matches[source_name])]
          /\ publish' = [publish EXCEPT ![i][source_name].open = TRUE,
                                        ![i][source_name].opened = @ + 1]
    /\ UNCHANGED <<conf, mgr, loads, extensions, discovery_manager, group_prefix,
                   coord, pipelines, polling_tasks, timers, start_log, hist>>

\* The discover() call of the turn that is under way: the first that has
\* not returned, 0 when all have.
Current(calls) ==
    IF \A c \in DOMAIN calls : Returned(calls[c]) THEN 0
    ELSE CHOOSE c \in DOMAIN calls :
            /\ ~Returned(calls[c])
            /\ \A b \in 1 .. c - 1 : Returned(calls[b])

\* The URL the discover() call is at.
Cursor(call) == call.discovery[Len(call.parts) + 1]

\* Line 307 fails and line 312 holds for `url`: the discoverer is invoked,
\* and discover() waits for its answer.
Invokes(discovery_cache, url) ==
    /\ url \notin DOMAIN discovery_cache
    /\ _discoverer(_parse_discoverer(url).name) # NoDiscoverer

\* One turn of the loop of discover() (lines 306-324) in the cycle with
\* the locals r: a cache hit, an unknown plugin, or the answer `out` of the
\* discoverer, partitioned with the membership the coordinator holds now.
Visit(r, out) ==
    LET c == Current(r.calls)
        call == r.calls[c]
        entered == IF call.parts = <<>> THEN r.discovery_cache ELSE call.cache
        st == DiscoverUrl(MyId, Cursor(call), out,
                          DiscoverState(call.resources, r.discovery_cache,
                                        r.invoked, call.parts, FALSE))
    IN  [r |-> [r EXCEPT !.calls[c] = Call(call.discovery, entered, st),
                         !.discovery_cache = st.cache,
                         !.invoked = st.invoked],
         raised |-> st.raised]

RECURSIVE Advance(_, _)
\* poll_and_publish runs on, from inside a turn of the inner loop, to the
\* next call that waits for the network: through the URLs discover() need
\* not invoke a discoverer for, up to a discoverer it invokes (line 314),
\* or, past the last discover() call, through lines 77-84 and 136-151: the
\* static resources are partitioned with the membership the coordinator
\* holds now, the candidates are chosen and filtered by the blacklist, and
\* the pollster is skipped (polls: the turn that ended) or get_samples is
\* called (line 154).
Advance(task, r) ==
    IF Current(r.calls) # 0
    THEN IF Invokes(r.discovery_cache, Cursor(r.calls[Current(r.calls)]))
         THEN [r |-> r, polls |-> {}]
         ELSE Advance(task, Visit(r, <<>>).r)
    ELSE LET poll == Resolve(task, r.source_name, r.pollster, r.calls)
         IN  IF skip(poll.polling_resources)
             THEN \* skip for this pollster
                  [r |-> [r EXCEPT !.pc = "pollsters",
                                   !.pollster = NoPollster,
                                   !.calls = <<>>],
                   polls |-> {poll}]
             ELSE [r |-> [r EXCEPT !.pc = "sample",
                                   !.poll = [poll EXCEPT !.result = "sample"]],
                   polls |-> {}]

\* The inner loop takes its next pollster (line 128) and the turn runs to
\* its first call that waits.
NextPollster(i) ==
    /\ i \in DOMAIN run
    /\ run[i].pc = "pollsters"
    /\ \E pollster \in run[i].pollsters :
          LET rs == polling_tasks[i].resources[key(run[i].source_name, pollster)]
              turn == [run[i] EXCEPT !.pc = "discover",
                                     !.pollsters = @ \ {pollster},
                                     !.pollster = pollster,
                                     !.calls = DiscoverCalls(pollster, rs)]
          IN  \E res \in {Advance(polling_tasks[i], turn)} :
                 /\ run' = [run EXCEPT ![i] = res.r]
                 /\ hist' = IF res.polls = {} THEN hist
                            ELSE [hist EXCEPT ![i].invoked = res.r.invoked,
                                              ![i].polls = @ \cup res.polls]
    /\ UNCHANGED <<conf, mgr, loads, extensions, discovery_manager, group_prefix,
                   coord, pipelines, polling_tasks, timers, start_log, publish>>

\* The discoverer that discover() invoked (line 314) answers, after the
\* other timers ran while it waited: what it returns is partitioned with
\* the membership the coordinator holds now (lines 315-320), or its
\* exception is handled (line 321), and the turn runs to its next call
\* that waits.
Discover(i) ==
    /\ i \in DOMAIN run
    /\ run[i].pc = "discover"
    /\ Current(run[i].calls) # 0
    /\ Invokes(run[i].discovery_cache, Cursor(run[i].calls[Current(run[i].calls)]))
    /\ \E out \in DiscoverOutcomes :
       \E visit \in {Visit(run[i], out)} :
          IF visit.raised
          THEN \* the exception leaves discover() and poll_and_publish
               /\ run' = [run EXCEPT ![i].pc = "raised",
                                     ![i].invoked = visit.r.invoked,
                                     ![i].pollster = NoPollster,
                                     ![i].calls = <<>>]
               /\ publish' = [publish EXCEPT ![i][run[i].source_name] = Flush(@)]
               /\ hist' = [hist EXCEPT
                               ![i].invoked = visit.r.invoked,
                               ![i].polls = @ \cup
                                   {Unresolved(run[i].source_name, run[i].pollster,
                                               SubSeq(visit.r.calls, 1,
                                                      Current(run[i].calls)))}]
          ELSE \E res \in {Advance(polling_tasks[i], visit.r)} :
                  /\ run' = [run EXCEPT ![i] = res.r]
                  /\ hist' = IF res.polls = {} THEN hist
                             ELSE [hist EXCEPT ![i].invoked = res.r.invoked,
                                               ![i].polls = @ \cup res.polls]
                  /\ UNCHANGED publish
    /\ UNCHANGED <<conf, mgr, loads, extensions, discovery_manager, group_prefix,
                   coord, pipelines, polling_tasks, timers, start_log>>

\* get_samples answers (lines 154-158), after the other timers ran while
\* it waited: the samples it yielded are handed to the publish context of
\* the source (line 159), or the except clause that catches its exception
\* runs (lines 160-170), and the turn is over.
PollPollster(i) ==
    /\ i \in DOMAIN run
    /\ run[i].pc = "sample"
    /\ LET pollster == run[i].pollster
           source_name == run[i].source_name
           poll == run[i].poll
       IN  \E got \in GetSamplesOutcomes(poll.polling_resources) :
           LET clause == Handler(got.exc, PollClauses)
               polled == [run EXCEPT ![i].pc = "pollsters",
                                     ![i].cache = @ \cup {pollster.name},
                                     ![i].pollster = NoPollster,
                                     ![i].calls = <<>>,
                                     ![i].poll = NoPoll]
               sent == [publish EXCEPT ![i][source_name].adds =
                            @ \o published(pollster, poll.polling_resources, got)]
               done == [poll EXCEPT !.result = IF got.exc = None THEN "ok"
                                              ELSE got.exc,
                                    !.fail_res = got.fail_res,
                                    !.yielded = got.yielded]
           IN  /\ hist' = [hist EXCEPT ![i].invoked = run[i].invoked,
                                       ![i].polls = @ \cup {done}]
               /\ IF got.exc = None
                  THEN /\ run' = polled
                       /\ publish' = sent
                       /\ UNCHANGED polling_tasks
                  ELSE IF clause = "PollsterPermanentError"
                  THEN /\ run' = polled
                       /\ polling_tasks' =
                              [polling_tasks EXCEPT
                                   ![i].resources[poll.key].blacklist =
                                       blacklisted(@, got.fail_res)]
                       /\ publish' = sent
                  ELSE IF clause = "Exception"
                  THEN /\ run' = polled
                       /\ publish' = sent
                       /\ UNCHANGED polling_tasks
                  ELSE \* no clause catches it: it leaves poll_and_publish
                       /\ run' = [polled EXCEPT ![i].pc = "raised"]
                       /\ publish' = [sent EXCEPT ![i][source_name] = Flush(@)]
                       /\ UNCHANGED polling_tasks
    /\ UNCHANGED <<conf, mgr, loads, extensions, discovery_manager, group_prefix,
                   coord, pipelines, timers, start_log>>

\* The inner loop is over: the with statement leaves the publish context.
ExitSource(i) ==
    /\ i \in DOMAIN run
    /\ run[i].pc = "pollsters"
    /\ run[i].pollsters = {}
    /\ run' = [run EXCEPT ![i].pc = "sources"]
    /\ publish' = [publish EXCEPT ![i][run[i].source_name] = Flush(@)]
    /\ UNCHANGED <<conf, mgr, loads, extensions, discovery_manager, group_prefix,
                   coord, pipelines, polling_tasks, timers, start_log, hist>>

\* The outer loop is over: poll_and_publish returns.
Return(i) ==
    /\ i \in DOMAIN run
    /\ run[i].pc = "sources"
    /\ run[i].sources = {}
    /\ run' = [run EXCEPT ![i] = [Idle EXCEPT !.pc = "idle"]]
    /\ UNCHANGED <<conf, mgr, loads, extensions, discovery_manager, group_prefix,
                   coord, pipelines, polling_tasks, timers, start_log, publish, hist>>

\* The heartbeat timer fires (line 285): the coordinator talks to its
\* backend, and holds whatever membership the backend has now.
Heartbeat ==
    /\ mgr = "started"
    /\ \E t \in timers : t.callback = "heartbeat"
    /\ is_active(coord)
    /\ \E members \in {{MyId}, Agents} \ {coord.members} :
          coord' = [coord EXCEPT !.members = members]
    /\ UNCHANGED <<conf, mgr, loads, extensions, discovery_manager, group_prefix,
                   pipelines, polling_tasks, timers, start_log, run, publish, hist>>

Next ==
    \/ Construct
    \/ Start
    \/ Heartbeat
    \/ \E i \in DOMAIN polling_tasks :
          \/ IntervalTask(i)
          \/ EnterSource(i)
          \/ NextPollster(i)
          \/ Discover(i)
          \/ PollPollster(i)
          \/ ExitSource(i)
          \/ Return(i)

Spec == Init /\ [][Next]_vars

(***************************************************************************)
(* What the history of a cycle holds                                       *)
(***************************************************************************)

Tasks == DOMAIN polling_tasks

\* The (source, pollster) pairings of task i.
Pairings(i) ==
    {<<s, p>> \in (DOMAIN polling_tasks[i].pollster_matches) \X Range(extensions) :
        InSeq(p, polling_tasks[i].pollster_matches[s])}

\* The Resources object of a pairing.
ResourcesOf(i, s, p) == polling_tasks[i].resources[key(s, p)]

\* The last poll_and_publish of task i has returned.
Completed(i) == run[i].pc = "idle" /\ hist[i].polls # {}

\* The poll records a step adds to the history of task i.
NewPolls(i) == hist'[i].polls \ hist[i].polls

\* The turns whose resources a step resolves (lines 77-84, 136-151): the
\* pollster is skipped in this step, or get_samples is called.
NewResolved(i) ==
    IF i \in DOMAIN run' /\ run[i].pc \in {"pollsters", "discover"}
    THEN (IF run'[i].pc = "sample" THEN {run'[i].poll} ELSE {})
         \cup {poll \in NewPolls(i) : poll.result = "skip"}
    ELSE {}

IsPrefix(s, t) == Len(s) <= Len(t) /\ SubSeq(t, 1, Len(s)) = s

\* The places <<poll, call, position>> of the parts of the discover() calls
\* of this cycle of task i.
PartsIn(polls) ==
    {<<poll, c, k>> \in polls \X {1, 2} \X {1, 2, 3} :
        c \in DOMAIN poll.calls /\ k \in DOMAIN poll.calls[c].parts}

Parts(i) == PartsIn(hist[i].polls)

PartAt(place) == place[1].calls[place[2]].parts[place[3]]

\* How many parts of this cycle are about `url` and came about by `how`.
HowMany(i, url, how) ==
    Cardinality({place \in Parts(i) :
                    PartAt(place).url = url /\ PartAt(place).how = how})

\* The pairings of task i that refer to `url`, by the discovery list of
\* the source or by the default discovery of the pollster.
Referring(i, url) ==
    {pair \in Pairings(i) :
        \/ pair[2].default_discovery = url
        \/ InSeq(url, ResourcesOf(i, pair[1], pair[2])._discovery)}

\* The URL names a loaded discovery plugin.
Loaded(url) == _discoverer(_parse_discoverer(url).name) # NoDiscoverer

\* The URLs of the deployments.
Urls == {U_inst, U_inst_path, U_ep, U_nova}

(***************************************************************************)
(* C1. Blacklisting is monotonic: a blacklist only ever grows at its end,  *)
(* and no resource handed to get_samples for a pairing is in the           *)
(* blacklist of the pairing at that time, whatever the resolution          *)
(* returned: so a resource, once blacklisted, is never polled again.       *)
(***************************************************************************)
C1_BlacklistMonotonic ==
    [][\A i \in Tasks :
        /\ i \in DOMAIN polling_tasks' =>
              \A k \in DOMAIN polling_tasks[i].resources :
                 /\ k \in DOMAIN polling_tasks'[i].resources
                 /\ IsPrefix(polling_tasks[i].resources[k].blacklist,
                             polling_tasks'[i].resources[k].blacklist)
        /\ \A poll \in NewPolls(i) :
              Range(poll.polling_resources)
                 \cap Range(polling_tasks[i].resources[poll.key].blacklist) = {}]_vars

\* A pollster is polled although its resolution returned a blacklisted
\* resource.
C1_Witness ==
    \E i \in Tasks : \E poll \in hist[i].polls :
       /\ poll.result # "skip"
       /\ Range(poll.candidate_res) \cap Range(poll.black_res) # {}
       /\ Range(poll.polling_resources) \cap Range(poll.black_res) = {}

(***************************************************************************)
(* C2. Within one poll_and_publish, the discoverer of a URL that names a   *)
(* loaded plugin and to which two or more pairings refer is invoked at     *)
(* least once; at most one invocation returns, its result is cached (an    *)
(* empty one too) and later references use the cache. An invocation that   *)
(* raises caches nothing: the next reference invokes the discoverer again. *)
(***************************************************************************)
C2_DiscoveryOncePerSuccess ==
    \A i \in Tasks : \A url \in Urls :
       LET invoked == IF url \in DOMAIN hist[i].invoked
                      THEN hist[i].invoked[url] ELSE 0
       IN  /\ invoked = HowMany(i, url, "raised") + HowMany(i, url, "discovered")
           /\ HowMany(i, url, "discovered") <= 1
           /\ HowMany(i, url, "cached") > 0 => HowMany(i, url, "discovered") = 1
           /\ (Completed(i) /\ Loaded(url) /\ Cardinality(Referring(i, url)) >= 2)
                 => /\ invoked >= 1
                    /\ HowMany(i, url, "raised") = 0 => invoked = 1
                    /\ invoked <= 1 + HowMany(i, url, "raised")

\* A cycle in which two pairings referred to a URL, one invocation
\* returned and a later reference was served by the cache.
C2_Witness ==
    \E i \in Tasks : \E url \in Urls :
       /\ Completed(i)
       /\ Loaded(url)
       /\ Cardinality(Referring(i, url)) >= 2
       /\ hist[i].invoked[url] = 1
       /\ HowMany(i, url, "cached") >= 1

\* The claim as stated: exactly one invocation in a cycle, whatever the
\* invocation does.
C2_Original ==
    \A i \in Tasks : \A url \in Urls :
       (Loaded(url) /\ Cardinality(Referring(i, url)) >= 2)
          => /\ url \in DOMAIN hist[i].invoked => hist[i].invoked[url] <= 1
             /\ Completed(i) => (url \in DOMAIN hist[i].invoked
                                 /\ hist[i].invoked[url] = 1)

(***************************************************************************)
(* C3. No exception of a pollster or of a discoverer leaves                *)
(* poll_and_publish, and when the cycle has returned every pairing of the  *)
(* task was resolved, and get_samples was invoked for each whose targets   *)
(* were not empty.                                                         *)
(***************************************************************************)
C3_CycleNeverFails ==
    \A i \in Tasks :
       /\ run[i].pc # "raised"
       /\ Completed(i) =>
             \A pair \in Pairings(i) :
                \E poll \in hist[i].polls :
                   /\ poll.source_name = pair[1]
                   /\ poll.pollster = pair[2].name
                   /\ poll.polling_resources # <<>> =>
                         poll.result \in {"ok", "PollsterPermanentError", "Exception"}

\* A cycle returned in which one pollster raised an error, another was
\* polled all the same, and a discoverer raised.
C3_Witness ==
    \E i \in Tasks :
       /\ Completed(i)
       /\ \E p1, p2 \in hist[i].polls :
             /\ p1.result = "Exception"
             /\ p2.result = "ok"
             /\ p1.pollster # p2.pollster
       /\ \E place \in Parts(i) : PartAt(place).how = "raised"

(***************************************************************************)
(* C4. With this agent and its peer both members of the group, what        *)
(* Resources.get returns to the two of them for a static resource list     *)
(* (and no discovery) is disjoint, and together it is the list: every      *)
(* static resource falls to exactly one of the two.                        *)
(***************************************************************************)
C4_DisjointComplete ==
    \A i \in Tasks : \A k \in DOMAIN polling_tasks[i].resources :
       LET rs == polling_tasks[i].resources[k]
           mine == get(MyId, rs, <<>>)
           theirs == get(PeerId, rs, <<>>)
       IN  (is_active(coord) /\ coord.members = Agents
            /\ rs._resources # <<>> /\ rs._discovery = <<>>)
              => /\ Range(mine) \cap Range(theirs) = {}
                 /\ Range(mine) \cup Range(theirs) = Range(rs._resources)
                 /\ \A r \in Range(rs._resources) :
                       Count(r, mine) + Count(r, theirs) = Count(r, rs._resources)

\* The two agents share a static list, each has a part of it, and this
\* agent has polled its part.
C4_Witness ==
    \E i \in Tasks : \E poll \in hist[i].polls :
       LET rs == polling_tasks[i].resources[poll.key]
           mine == get(MyId, rs, <<>>)
           theirs == get(PeerId, rs, <<>>)
       IN  /\ is_active(coord) /\ coord.members = Agents
           /\ rs._resources # <<>> /\ rs._discovery = <<>>
           /\ mine # <<>> /\ theirs # <<>>
           /\ poll.source_resources = mine
           /\ poll.result = "ok"

(***************************************************************************)
(* C5. The constructor raises PollsterListForbidden exactly when the       *)
(* pollster list is not empty and a coordination backend URL is set, and   *)
(* it has then loaded no extension and created no coordinator.             *)
(***************************************************************************)
C5_PollsterListForbidden ==
    /\ mgr # "new" =>
          (mgr = "failed" <=>
              (conf.pollster_list # <<>> /\ Truthy(conf.backend_url)))
    /\ mgr = "failed" =>
          /\ loads = <<>>
          /\ extensions = <<>>
          /\ discovery_manager = <<>>
          /\ ~coord.created
    /\ mgr \in {"constructed", "started"} =>
          /\ loads # <<>>
          /\ coord.created

\* The constructor was given both, and failed.
C5_Witness ==
    /\ mgr = "failed"
    /\ conf.pollster_list # <<>>
    /\ Truthy(conf.backend_url)

RECURSIVE Minus(_, _)
\* The list s without its elements that are in the set S.
Minus(s, S) ==
    IF s = <<>> THEN <<>>
    ELSE (IF Head(s) \in S THEN <<>> ELSE <<Head(s)>>) \o Minus(Tail(s), S)

RECURSIVE Flat(_)
\* The items of a list of parts, one after the other.
Flat(parts) == IF parts = <<>> THEN <<>> ELSE Head(parts).items \o Flat(Tail(parts))

(***************************************************************************)
(* C6. When get_samples raises PollsterPermanentError for a pairing, the   *)
(* handler appends the failed resource, and nothing else, to the           *)
(* blacklist of the pairing and changes nothing else of the task: the      *)
(* pollster stays registered; and whenever a pollster is resolved its      *)
(* targets are its candidates without the resources of the blacklist.      *)
(***************************************************************************)
C6_PermanentError ==
    [][\A i \in Tasks : \A poll \in NewPolls(i) :
        LET before == polling_tasks[i]
            after == polling_tasks'[i]
        IN  /\ poll.black_res = before.resources[poll.key].blacklist
            /\ poll.polling_resources
                  = Minus(poll.candidate_res, Range(poll.black_res))
            /\ poll.result = "PollsterPermanentError" =>
                  /\ poll.fail_res \in Range(poll.polling_resources)
                  /\ after.resources[poll.key].blacklist
                        = Append(before.resources[poll.key].blacklist, poll.fail_res)
                  /\ after.resources[poll.key]._resources
                        = before.resources[poll.key]._resources
                  /\ after.resources[poll.key]._discovery
                        = before.resources[poll.key]._discovery
                  /\ \A k \in DOMAIN before.resources \ {poll.key} :
                        after.resources[k] = before.resources[k]
                  /\ after.pollster_matches = before.pollster_matches
                  /\ after.publishers = before.publishers
                  /\ run'[i].pc = "pollsters"]_vars

\* Static resources [r1, r2], r1 blacklisted by an earlier cycle: the
\* targets of this cycle are [r2].
C6_Witness ==
    \E i \in Tasks : \E poll \in hist[i].polls :
       /\ polling_tasks[i].resources[poll.key]._resources = <<"r1", "r2">>
       /\ poll.source_resources = <<"r1", "r2">>
       /\ poll.black_res = <<"r1">>
       /\ poll.polling_resources = <<"r2">>
       /\ poll.result = "ok"

(***************************************************************************)
(* C7. A pollster is skipped exactly when its targets are empty, and the   *)
(* skip invokes no get_samples (the pollster cache is untouched), adds     *)
(* nothing to the publish batch, changes no blacklist and goes on with     *)
(* the inner loop.                                                         *)
(***************************************************************************)
C7_EmptyTargetSkip ==
    [][\A i \in Tasks : \A poll \in NewPolls(i) :
        /\ poll.polling_resources = <<>> <=> poll.result = "skip"
        /\ poll.polling_resources = <<>> =>
              /\ run'[i].cache = run[i].cache
              /\ publish' = publish
              /\ polling_tasks' = polling_tasks
              /\ run'[i].pc = "pollsters"]_vars

\* A cycle that skipped a pollster whose candidates were all blacklisted,
\* polled another, and returned.
C7_Witness ==
    \E i \in Tasks :
       /\ Completed(i)
       /\ \E p1, p2 \in hist[i].polls :
             /\ p1.result = "skip"
             /\ p1.candidate_res # <<>>
             /\ p2.result = "ok"

(***************************************************************************)
(* C8. discover() visits every URL of its list and never raises: a URL     *)
(* that names no loaded plugin and a URL whose discoverer raises           *)
(* contribute nothing, every other URL contributes what its discoverer     *)
(* returned, partitioned (all of it when the plugin has no group), or      *)
(* what the cache of the cycle holds for it, and the result is the         *)
(* contributions in the order of the list.                                 *)
(***************************************************************************)
C8_DiscoverIsolatesFailures ==
    \A i \in Tasks : \A poll \in hist[i].polls : \A c \in DOMAIN poll.calls :
       LET call == poll.calls[c]
       IN  /\ ~call.raised
           /\ Len(call.parts) = Len(call.discovery)
           /\ call.resources = Flat(call.parts)
           /\ \A k \in DOMAIN call.parts :
                 LET part == call.parts[k]
                     plugin == _discoverer(_parse_discoverer(part.url).name)
                 IN  /\ part.url = call.discovery[k]
                     /\ part.how \in {"cached", "unknown", "raised", "discovered"}
                     /\ part.how = "unknown" <=>
                           (~Loaded(part.url) /\ part.url \notin DOMAIN call.cache)
                     /\ part.how \in {"unknown", "raised"} => part.items = <<>>
                     /\ part.how = "raised" <=> part.out = Raise
                     /\ part.how = "discovered" =>
                           /\ part.items
                                 = Minus(part.out, Range(part.out) \ Range(part.items))
                           /\ ~Truthy(plugin.group_id) => part.items = part.out
                     /\ part.how = "cached" =>
                           \E place \in Parts(i) :
                              /\ PartAt(place).how = "discovered"
                              /\ PartAt(place).url = part.url
                              /\ PartAt(place).items = part.items

\* One discover() call met an unknown plugin and a discoverer that raised,
\* and still returned the resources of a third URL.
C8_Witness ==
    \E i \in Tasks : \E poll \in hist[i].polls : \E c \in DOMAIN poll.calls :
       LET parts == poll.calls[c].parts
       IN  /\ \E k \in DOMAIN parts : parts[k].how = "unknown"
           /\ \E k \in DOMAIN parts : parts[k].how = "raised"
           /\ \E k \in DOMAIN parts :
                 parts[k].how = "discovered" /\ parts[k].items # <<>>
           /\ poll.calls[c].resources # <<>>

(***************************************************************************)
(* C9. Resources.get returns the static part followed by the discovered    *)
(* part, duplicates kept: the static part is the static list of the        *)
(* Resources object, whole and in order unless the coordinator is active   *)
(* with both agents in the group, and then the resources that fall to      *)
(* this agent; the discovered part is what discover() returned for the     *)
(* discovery list of the object, each item from a discoverer invoked in    *)
(* this cycle for one of these URLs.                                       *)
(***************************************************************************)
C9_ResolveConcatenates ==
    [][\A i \in Tasks : \A poll \in NewResolved(i) :
        LET rs == polling_tasks[i].resources[poll.key]
            static == IF is_active(coord) /\ coord.members = Agents
                      THEN Minus(rs._resources,
                                 {r \in Resources : coord.ring[r] # MyId})
                      ELSE rs._resources
            call == poll.calls[Len(poll.calls)]
            discovered == IF rs._discovery # <<>> THEN call.resources ELSE <<>>
        IN  /\ poll.source_resources = static \o discovered
            /\ Len(poll.source_resources) = Len(static) + Len(discovered)
            /\ rs._discovery # <<>> =>
                  /\ call.discovery = rs._discovery
                  /\ discovered = Flat(call.parts)
                  /\ \A k \in DOMAIN call.parts :
                        LET part == call.parts[k]
                        IN  part.items # <<>> =>
                               /\ InSeq(part.url, rs._discovery)
                               /\ Loaded(part.url)
                               /\ \E place \in PartsIn(hist'[i].polls \cup {poll}) :
                                     /\ PartAt(place).how = "discovered"
                                     /\ PartAt(place).url = part.url
                                     /\ PartAt(place).items = part.items
                                     /\ Range(part.items) \subseteq
                                           Range(PartAt(place).out)]_vars

\* A static resource that is discovered too is returned twice.
C9_Witness ==
    \E i \in Tasks : \E poll \in hist[i].polls :
       /\ polling_tasks[i].resources[poll.key]._resources = <<"r1">>
       /\ poll.source_resources = <<"r1", "r1", "r3">>

(***************************************************************************)
(* C10. In a task that add() calls have built, add(pollster, pipeline)     *)
(* called twice leaves the pollster once in the pollster set of the        *)
(* source, one PublishContext made for the source and one Resources        *)
(* object made for the key of the pairing; and so it is in every task      *)
(* setup_polling_tasks builds.                                             *)
(***************************************************************************)
C10_IdempotentAdd ==
    \A i \in Tasks :
       LET Made(task, class, of) ==
               Count([class |-> class, of |-> of], task.created)
           Once(task, pollster, source_name) ==
               /\ Count(pollster, task.pollster_matches[source_name]) = 1
               /\ source_name \in DOMAIN task.publishers
               /\ Made(task, "PublishContext", source_name) = 1
               /\ key(source_name, pollster) \in DOMAIN task.resources
               /\ Made(task, "Resources", key(source_name, pollster)) = 1
       IN  /\ \A pair \in Pairings(i) : Once(polling_tasks[i], pair[2], pair[1])
           /\ \A x \in DOMAIN extensions, n \in DOMAIN pipelines :
                 LET twice == add(add(polling_tasks[i], extensions[x], pipelines[n]),
                                  extensions[x], pipelines[n])
                 IN  /\ Once(twice, extensions[x], pipelines[n].source)
                     /\ \A pair \in Pairings(i) : Once(twice, pair[2], pair[1])

\* A task to which a pollster was added twice for one source, once for
\* each of the two pipelines of the source.
C10_Witness ==
    \E i \in Tasks : \E s \in DOMAIN polling_tasks[i].publishers :
       /\ Cardinality(polling_tasks[i].publishers[s]) = 2
       /\ Len(polling_tasks[i].pollster_matches[s]) = 1

(***************************************************************************)
(* C11. Two different pairings (source, pollster) of one task have         *)
(* different keys, hence each its own Resources object, which holds the    *)
(* static resources and the discovery URLs of a pipeline of its own        *)
(* source: nothing one pairing does reaches the Resources of the other.    *)
(***************************************************************************)
C11_DistinctKeys ==
    \A i \in Tasks : \A a, b \in Pairings(i) :
       /\ a # b => key(a[1], a[2]) # key(b[1], b[2])
       /\ \E n \in DOMAIN pipelines :
             /\ pipelines[n].source = a[1]
             /\ pipelines[n].interval = i
             /\ ResourcesOf(i, a[1], a[2])._resources = pipelines[n].resources
             /\ ResourcesOf(i, a[1], a[2])._discovery = pipelines[n].discovery

\* The loaded pollster extension of that name.
PollsterNamed(name) == CHOOSE p \in Range(extensions) : p.name = name

(***************************************************************************)
(* C12. For every pollster polled or skipped in a cycle: its candidates    *)
(* are what Resources.get returned for the pairing when that is not        *)
(* empty, blacklisted or not, and else what discover() returned for the    *)
(* default discovery of the pollster (nothing when it has none); and its   *)
(* targets are the candidates without the resources in the blacklist of    *)
(* the pairing, in the order of the candidates.                            *)
(***************************************************************************)
C12_CandidateSelection ==
    [][\A i \in Tasks : \A poll \in NewPolls(i) :
        LET pollster == PollsterNamed(poll.pollster)
            default == IF pollster.default_discovery # NoUrl
                       THEN poll.calls[1].resources
                       ELSE <<>>
            black == Range(polling_tasks[i].resources[poll.key].blacklist)
        IN  /\ pollster.default_discovery # NoUrl =>
                  poll.calls[1].discovery = <<pollster.default_discovery>>
            /\ poll.pollster_resources = default
            /\ poll.source_resources # <<>> =>
                  poll.candidate_res = poll.source_resources
            /\ poll.source_resources = <<>> => poll.candidate_res = default
            /\ poll.polling_resources = Minus(poll.candidate_res, black)
            /\ Range(poll.polling_resources) = Range(poll.candidate_res) \ black
            /\ poll.result # "skip" => poll.polling_resources # <<>>]_vars

\* A pollster was skipped because the static resources of its source were
\* all blacklisted, though its default discovery found a resource that is
\* not; and the same pollster, for a source without resources (in the task
\* of another interval), polled what its default discovery found.
C12_Witness ==
    \E i, j \in Tasks : \E p1 \in hist[i].polls, p2 \in hist[j].polls :
       /\ p1.source_resources = <<"r1">>
       /\ p1.black_res = <<"r1">>
       /\ p1.pollster_resources = <<"r1", "r3">>
       /\ p1.candidate_res = <<"r1">>
       /\ p1.result = "skip"
       /\ p2.source_resources = <<>>
       /\ p2.pollster_resources = <<"r1", "r3">>
       /\ p2.candidate_res = <<"r1", "r3">>
       /\ p2.polling_resources = <<"r1", "r3">>
       /\ p2.result = "ok"

(***************************************************************************)
(* C13. A step of a started agent in which no get_samples raised           *)
(* PollsterPermanentError leaves every task as it was: its blacklists,     *)
(* pollster sets, static resources, discovery URLs and publishers. So a    *)
(* cycle whose failures are all transient ends with the tasks it began     *)
(* with. When get_samples raises another error, the inner loop goes on,    *)
(* nothing is added to the publish batch, the pollster stays registered    *)
(* for its source, and its candidates filtered by the blacklist after the  *)
(* step are the targets it was just polled with.                           *)
(***************************************************************************)
C13_TransientNoStateChange ==
    [][mgr = "started" =>
        \A i \in Tasks :
           /\ (\A poll \in NewPolls(i) : poll.result # "PollsterPermanentError")
                 => polling_tasks'[i] = polling_tasks[i]
           /\ \A poll \in NewPolls(i) :
                 poll.result = "Exception" =>
                    /\ polling_tasks'[i] = polling_tasks[i]
                    /\ publish' = publish
                    /\ run'[i].pc = "pollsters"
                    /\ InSeq(PollsterNamed(poll.pollster),
                             polling_tasks'[i].pollster_matches[poll.source_name])
                    /\ exclude(poll.candidate_res,
                               polling_tasks'[i].resources[poll.key].blacklist)
                          = poll.polling_resources]_vars

\* A cycle has returned in which get_samples raised a transient error for
\* a pairing that had a blacklisted resource: the blacklist is as it was
\* when the pollster was resolved.
C13_Witness ==
    \E i \in Tasks : \E poll \in hist[i].polls :
       /\ Completed(i)
       /\ poll.result = "Exception"
       /\ poll.black_res # <<>>
       /\ poll.polling_resources # <<>>
       /\ polling_tasks[i].resources[poll.key].blacklist = poll.black_res

(***************************************************************************)
(* C14. In every cycle of a task the publish batch of each source of the   *)
(* task is opened at most once and flushed only after it was opened; when  *)
(* poll_and_publish has returned, each was opened once and flushed once,   *)
(* whatever its pollsters did; and samples are added only to a batch that  *)
(* is open, and stays open, in that step.                                  *)
(***************************************************************************)
C14_BatchOnce ==
    [][\A i \in DOMAIN publish' :
        /\ \A s \in DOMAIN publish'[i] :
              LET batch == publish'[i][s]
              IN  /\ batch.opened <= 1
                  /\ batch.flushed <= batch.opened
                  /\ batch.open <=> (batch.opened = 1 /\ batch.flushed = 0)
                  /\ batch.adds # <<>> => batch.opened = 1
                  /\ (i \in DOMAIN publish /\ s \in DOMAIN publish[i]
                      /\ batch.adds # publish[i][s].adds /\ batch.adds # <<>>) =>
                        /\ publish[i][s].open
                        /\ batch.open
                        /\ s = run[i].source_name
        /\ (run'[i].pc = "idle" /\ hist'[i].polls # {}) =>
              /\ DOMAIN publish'[i] = DOMAIN polling_tasks'[i].pollster_matches
              /\ \A s \in DOMAIN publish'[i] :
                    /\ publish'[i][s].opened = 1
                    /\ publish'[i][s].flushed = 1]_vars

\* A cycle of a task with two sources has returned: in one source a
\* pollster was skipped, in one a pollster was polled and its samples
\* added, and both batches were opened once and flushed once.
C14_Witness ==
    \E i \in Tasks :
       /\ Completed(i)
       /\ Cardinality(DOMAIN publish[i]) = 2
       /\ \E p1, p2 \in hist[i].polls :
             /\ p1.source_name # p2.source_name
             /\ p1.result = "skip"
             /\ p2.result = "ok"
             /\ publish[i][p1.source_name].adds = <<>>
             /\ publish[i][p2.source_name].adds # <<>>
       /\ \A s \in DOMAIN publish[i] :
             publish[i][s].opened = 1 /\ publish[i][s].flushed = 1

\* The entries the discover() calls of these polls wrote to the cache.
Written(polls) ==
    {<<PartAt(place).url, PartAt(place).items>> :
        place \in {q \in PartsIn(polls) : PartAt(q).how = "discovered"}}

(***************************************************************************)
(* C15. The discovery cache and the pollster cache live in one             *)
(* poll_and_publish: a cycle starts with both empty; whatever a cycle      *)
(* finds in its discovery cache, at any discover() call, was written by a  *)
(* discover() call of this cycle of this task that invoked the discoverer  *)
(* (so the first reference of a cycle to a URL of a loaded plugin invokes  *)
(* it, whatever earlier cycles or the cycles of other tasks resolved); the *)
(* pollster cache holds only what the pollsters of this cycle put there.   *)
(***************************************************************************)
C15_CachesPerCycle ==
    [][\A i \in DOMAIN run' :
        LET now == run'[i]
            \* the turns of this cycle, the one under way included
            polls == hist'[i].polls
                     \cup (IF now.calls # <<>> THEN {[calls |-> now.calls]} ELSE {})
            invoked == IF now.pc = "idle" THEN hist'[i].invoked ELSE now.invoked
            Mine(cache) ==
                \A url \in DOMAIN cache : <<url, cache[url]>> \in Written(polls)
        IN  /\ (i \in DOMAIN run /\ run[i].pc = "idle" /\ now.pc # "idle") =>
                  /\ now.cache = {}
                  /\ now.discovery_cache = EmptyDict
                  /\ now.invoked = EmptyDict
                  /\ polls = {}
            /\ now.pc = "idle" =>
                  now.cache = {} /\ now.discovery_cache = EmptyDict
            /\ Mine(now.discovery_cache)
            /\ \A poll \in polls : \A c \in DOMAIN poll.calls :
                  /\ Mine(poll.calls[c].cache)
                  /\ \A k \in DOMAIN poll.calls[c].parts :
                        poll.calls[c].parts[k].how = "cached" =>
                           invoked[poll.calls[c].parts[k].url] >= 1
            /\ now.cache \subseteq
                  {poll.pollster :
                      poll \in {q \in hist'[i].polls : q.result # "skip"}}]_vars

\* Two tasks are in a cycle at once, one holds a URL in its discovery cache
\* and the other, which resolved the same URL in this cycle, holds another
\* list for it: neither saw the entry of the other. The second task
\* resolved the URL in two earlier cycles too (it blacklisted a resource
\* in each), and invoked the discoverer again in this one.
C15_Witness ==
    \E i, j \in Tasks : \E url \in Urls :
       /\ i # j
       /\ run[i].pc = "pollsters"
       /\ run[j].pc = "pollsters"
       /\ url \in DOMAIN run[i].discovery_cache
       /\ url \in DOMAIN run[j].discovery_cache
       /\ run[i].discovery_cache[url] # run[j].discovery_cache[url]
       /\ hist[j].invoked[url] = 1
       /\ \E k \in DOMAIN polling_tasks[j].resources :
             /\ Len(polling_tasks[j].resources[k].blacklist) = 2
             /\ polling_tasks[j].resources[k]._resources = <<>>

(***************************************************************************)
(* C16. The tasks setup_polling_tasks built: there is a task for an        *)
(* interval exactly when a pipeline of that interval supports the meter    *)
(* of a loaded pollster; a loaded pollster is in the pollster set of       *)
(* source s in the task of interval i exactly when a pipeline of source    *)
(* s and interval i supports its meter; the pollster sets hold loaded      *)
(* pollsters only, and no task and no pollster set is empty.               *)
(***************************************************************************)
C16_TasksByInterval ==
    mgr = "started" =>
       LET Matches(n, p) == support_meter(pipelines[n], p.name)
       IN  /\ DOMAIN polling_tasks
                 = {pipelines[n].interval :
                       n \in {m \in DOMAIN pipelines :
                                 \E p \in Range(extensions) : Matches(m, p)}}
           /\ \A i \in DOMAIN polling_tasks :
                 LET matches == polling_tasks[i].pollster_matches
                 IN  /\ DOMAIN matches # {}
                     /\ \A s \in DOMAIN matches :
                           /\ matches[s] # <<>>
                           /\ Range(matches[s]) \subseteq Range(extensions)
                     /\ \A n \in DOMAIN pipelines, p \in Range(extensions) :
                           (/\ pipelines[n].source \in DOMAIN matches
                            /\ InSeq(p, matches[pipelines[n].source]))
                           <=> \E m \in DOMAIN pipelines :
                                  /\ pipelines[m].source = pipelines[n].source
                                  /\ pipelines[m].interval = i
                                  /\ Matches(m, p)
                     /\ \A s \in DOMAIN matches :
                           \E n \in DOMAIN pipelines :
                              pipelines[n].source = s /\ pipelines[n].interval = i

\* Two pipelines of two intervals: the one of interval 600 supports two
\* loaded pollsters, and its task holds both; the one of interval 60
\* supports no loaded pollster, and there is no task for its interval.
C16_Witness ==
    /\ mgr = "started"
    /\ Len(pipelines) = 2
    /\ {pipelines[n].interval : n \in DOMAIN pipelines} = {60, 600}
    /\ DOMAIN polling_tasks = {600}
    /\ \E s \in DOMAIN polling_tasks[600].pollster_matches :
          Len(polling_tasks[600].pollster_matches[s]) = 2

\* The timers start() scheduled for interval_task.
PollingTimers == {t \in timers : t.callback = "interval_task"}

(***************************************************************************)
(* C17. Once start() has run there is one interval_task timer for each     *)
(* interval that has a task and no other, its period is the interval,      *)
(* and there is one jitter between 0 and                                   *)
(* shuffle_time_before_polling_task such that the initial delay of every   *)
(* timer is the interval plus the jitter when the coordinator is active    *)
(* and the jitter alone when it is not; with a window of 0 the delay is    *)
(* the interval, or 0.                                                     *)
(***************************************************************************)
C17_TimerPerInterval ==
    mgr = "started" =>
       /\ {t.interval : t \in PollingTimers} = DOMAIN polling_tasks
       /\ Cardinality(PollingTimers) = Cardinality(DOMAIN polling_tasks)
       /\ \E jitter \in 0 .. conf.shuffle :
             \A t \in PollingTimers :
                t.initial_delay = IF is_active(coord) THEN t.interval + jitter
                                  ELSE jitter
       /\ conf.shuffle = 0 =>
             \A t \in PollingTimers :
                t.initial_delay = IF is_active(coord) THEN t.interval ELSE 0

\* An active coordinator, two intervals and a window that is not 0: both
\* timers are delayed by their interval and the same jitter, which is the
\* upper end of the window.
C17_Witness ==
    /\ mgr = "started"
    /\ is_active(coord)
    /\ conf.shuffle > 0
    /\ Cardinality(PollingTimers) = 2
    /\ \A t \in PollingTimers : t.initial_delay = t.interval + conf.shuffle

\* The call start() made is in its log.
Called(call) == InSeq(call, start_log)

\* The place of the first such call of start() in its log.
FirstCall(call) ==
    CHOOSE k \in DOMAIN start_log :
       start_log[k] = call /\ \A j \in 1 .. k - 1 : start_log[j] # call

\* The group ids (None left out) of the loaded discovery plugins and of
\* the static resource lists of the pipelines.
GroupsToJoin ==
    {group_prefix \o "-" \o discovery_manager[k].group_id :
        k \in {j \in DOMAIN discovery_manager :
                  Truthy(discovery_manager[j].group_id)}}
    \cup {group_prefix \o "-" \o hash_of_set(pipelines[k].resources) :
              k \in {j \in DOMAIN pipelines : pipelines[j].resources # <<>>}}

(***************************************************************************)
(* C18. start() reads the pipelines, starts the coordinator, then joins    *)
(* the partition groups, and only then builds the polling tasks and adds   *)
(* the timers; the groups it joins are the group id of every loaded        *)
(* discovery plugin that has one and the hash-derived group id of every    *)
(* pipeline with a static resource list that is not empty, each under the  *)
(* group prefix of the agent; nothing is joined, no timer is scheduled     *)
(* and no poll_and_publish runs before start() has done all of this.       *)
(***************************************************************************)
C18_StartOrder ==
    /\ mgr = "started" =>
          /\ Called("setup_pipeline")
          /\ Called("partition_coordinator.start")
          /\ Called("join_partitioning_groups")
          /\ Called("setup_polling_tasks")
          /\ Called("add_timer")
          /\ FirstCall("setup_pipeline") < FirstCall("partition_coordinator.start")
          /\ FirstCall("partition_coordinator.start")
                < FirstCall("join_partitioning_groups")
          /\ FirstCall("join_partitioning_groups") < FirstCall("setup_polling_tasks")
          /\ FirstCall("setup_polling_tasks") < FirstCall("add_timer")
          /\ coord.started
          /\ coord.joined \ {None} = GroupsToJoin
    /\ mgr # "started" =>
          /\ start_log = <<>>
          /\ coord.joined = {}
          /\ ~coord.started
          /\ timers = {}
          /\ DOMAIN run = {}

\* Started, with the groups of a discovery plugin and of two different
\* static resource lists joined, and a cycle under way.
C18_Witness ==
    /\ mgr = "started"
    /\ Cardinality(coord.joined \ {None}) = 3
    /\ \E i \in Tasks : run[i].pc = "pollsters"

(***************************************************************************)
(* C18 as stated: start() builds the polling tasks, then joins the         *)
(* partition groups, then starts the coordinator, and the groups joined    *)
(* are those of the discovery plugins and of the static resource lists.    *)
(***************************************************************************)
C18_Original ==
    mgr = "started" =>
       /\ FirstCall("setup_polling_tasks") < FirstCall("join_partitioning_groups")
       /\ FirstCall("join_partitioning_groups")
             < FirstCall("partition_coordinator.start")
       /\ FirstCall("partition_coordinator.start") < FirstCall("add_timer")
       /\ coord.joined \ {None} = GroupsToJoin

(***************************************************************************)
(* C19. Every group id that is not None and that a cycle hands to          *)
(* extract_my_subset is a group start() joined: the group of the static    *)
(* resources of a pairing, which Resources.get uses whenever the static    *)
(* list is not empty, and the group of a discovery plugin, which           *)
(* discover() uses whenever it invoked the plugin and the plugin returned. *)
(***************************************************************************)
C19_OnlyJoinedGroups ==
    \A i \in Tasks : \A poll \in hist[i].polls :
       /\ polling_tasks[i].resources[poll.key]._resources # <<>>
             => Truthy(poll.static_group)
       /\ Truthy(poll.static_group) => poll.static_group \in coord.joined
       /\ \A c \in DOMAIN poll.calls : \A k \in DOMAIN poll.calls[c].parts :
             LET part == poll.calls[c].parts[k]
                 plugin == _discoverer(_parse_discoverer(part.url).name)
             IN  /\ part.how = "discovered" =>
                       part.group = construct_group_id(plugin.group_id)
                 /\ part.how # "discovered" => part.group = None
                 /\ Truthy(part.group) => part.group \in coord.joined

\* One cycle partitioned the static resources of one pairing and the
\* discovered resources of another, with both agents in the groups, and
\* kept a part of each.
C19_Witness ==
    \E i \in Tasks : \E p1, p2 \in hist[i].polls :
       /\ is_active(coord)
       /\ coord.members = Agents
       /\ Truthy(p1.static_group)
       /\ p1.static_group \in coord.joined
       /\ Len(p1.source_resources) = 1
       /\ \E c \in DOMAIN p2.calls : \E k \in DOMAIN p2.calls[c].parts :
             /\ p2.calls[c].parts[k].how = "discovered"
             /\ Truthy(p2.calls[c].parts[k].group)
             /\ p2.calls[c].parts[k].group \in coord.joined
             /\ Len(p2.calls[c].parts[k].out) = 2
             /\ Len(p2.calls[c].parts[k].items) = 1

(***************************************************************************)
(* C20. What a pollster adds to the publish batch of its source in a       *)
(* cycle: all its samples, one for each of its targets, in one call of     *)
(* the publisher, when get_samples yielded them all without raising; and   *)
(* nothing when it was skipped or when get_samples raised, permanently or  *)
(* not, whatever it had yielded before. No batch holds two additions of    *)
(* one pollster.                                                           *)
(***************************************************************************)
C20_PublishAllOrNothing ==
    [][\A i \in Tasks :
        /\ \A poll \in NewPolls(i) :
              LET before == publish[i][poll.source_name].adds
                  after == publish'[i][poll.source_name].adds
              IN  /\ poll.result = "ok" =>
                        /\ Len(after) = Len(before) + 1
                        /\ SubSeq(after, 1, Len(before)) = before
                        /\ after[Len(after)].pollster = poll.pollster
                        /\ Len(after[Len(after)].samples) = Len(poll.polling_resources)
                        /\ \A n \in DOMAIN poll.polling_resources :
                              after[Len(after)].samples[n].resource
                                 = poll.polling_resources[n]
                        /\ poll.yielded = Len(poll.polling_resources)
                  /\ poll.result # "ok" => after = before
                  /\ \A s \in DOMAIN publish[i] \ {poll.source_name} :
                        publish'[i][s].adds = publish[i][s].adds
        /\ i \in DOMAIN publish' =>
              \A s \in DOMAIN publish'[i] :
                 \A k, l \in DOMAIN publish'[i][s].adds :
                    k # l => publish'[i][s].adds[k].pollster
                                # publish'[i][s].adds[l].pollster
        /\ (NewPolls(i) = {} /\ i \in DOMAIN publish /\ i \in DOMAIN publish') =>
              \A s \in DOMAIN publish[i] \cap DOMAIN publish'[i] :
                 publish'[i][s].adds = publish[i][s].adds
                    \/ publish'[i][s].adds = <<>>]_vars

\* A cycle has returned in which, for one source, get_samples of one
\* pollster raised after its first sample and another pollster was
\* polled: the batch, flushed, holds the samples of the other only.
C20_Witness ==
    \E i \in Tasks : \E p1, p2 \in hist[i].polls :
       /\ Completed(i)
       /\ p1.source_name = p2.source_name
       /\ p1.result \in {"PollsterPermanentError", "Exception"}
       /\ p1.yielded = 1
       /\ p2.result = "ok"
       /\ Len(publish[i][p1.source_name].adds) = 1
       /\ publish[i][p1.source_name].adds[1].pollster = p2.pollster
       /\ publish[i][p1.source_name].flushed = 1

====
